---- MODULE Spec2Model ----
(***************************************************************************)
(* rbittorrent: the concurrent peer-download engine.                       *)
(*                                                                         *)
(* The orchestrator (TorrentClient::send_request) seeds the shared bounded *)
(* task queue, spawns one worker per peer (Peer::try_download), waits for  *)
(* all of them and concatenates the cache files.  Each worker is a message *)
(* loop; its handlers are split at the operations on the shared queue      *)
(* (ArrayQueue::pop / push), which are the only points where workers on    *)
(* different runtime threads observe each other.                           *)
(*                                                                         *)
(* Bytes are modelled in units of one block: a tag <<i, b>> stands for the *)
(* BLOCK_SIZE payload bytes of piece i at offset b, Junk for any other     *)
(* BLOCK_SIZE bytes.  Option<T> is <<>> (None) or <<x>> (Some(x)).         *)
(***************************************************************************)
EXTENDS Integers, Sequences, FiniteSets, TLC

\* ------------------------------------------------------------------ bounds
NumPeers == 2
MaxMsgs == 4
MaxAnswers == 6
MaxBody == 2
MaxTag == 9
MaxLenSteps == 16

\* ------------------------------------------------- configuration (metainfo)
BLOCK_SIZE == 16384
piece_length == 32768
length == 65536

piece_num == length \div piece_length

Pieces == 0 .. (piece_num - 1)
Workers == 1 .. NumPeers
Offsets == {k * BLOCK_SIZE : k \in 0 .. ((piece_length \div BLOCK_SIZE) - 1)}

None == <<>>
Some(x) == <<x>>
Unwrap(o) == o[1]

\* ------------------------------------------------------------ payload, SHA-1
Junk == <<-1, 0>>
\* The leading bytes of a block, fewer than BLOCK_SIZE of them.
PartialBlock == <<-2, 0>>
PayloadBlock(i, b) == <<i, b>>
PayloadPiece(i) ==
    [k \in 1 .. (piece_length \div BLOCK_SIZE) |-> PayloadBlock(i, (k - 1) * BLOCK_SIZE)]

RECURSIVE PayloadFrom(_)
PayloadFrom(i) == IF i >= piece_num THEN <<>> ELSE PayloadPiece(i) \o PayloadFrom(i + 1)
Payload == PayloadFrom(0)

\* SHA-1 as a collision-free digest of the bytes.
Sha1(bytes) == <<"sha1", bytes>>

piece_hashes == [i \in Pieces |-> Sha1(PayloadPiece(i))]

\* ---------------------------------------------------------------------- Task
Task(index, plen, hash) == [index |-> index, piece_length |-> plen, piece_hash |-> hash]
TaskOf(i) == Task(i, piece_length, piece_hashes[i])

\* ------------------------------------------------------------------ Bitfield
RECURSIVE Pow2(_)
Pow2(n) == IF n = 0 THEN 1 ELSE 2 * Pow2(n - 1)

BitfieldNew(size) == [k \in 1 .. size |-> 0]

\* "panic" when the byte index is out of range of the bitfield's bytes.
has_piece(bf, index) ==
    LET byte_index == index \div 8
        offset == index % 8
    IN  IF byte_index >= Len(bf)
        THEN "panic"
        ELSE IF ((bf[byte_index + 1] \div Pow2(7 - offset)) % 2) # 0 THEN "yes" ELSE "no"

RECURSIVE BitsByte(_)
BitsByte(S) ==
    IF S = {} THEN 0
    ELSE LET i == CHOOSE x \in S : TRUE IN Pow2(7 - i) + BitsByte(S \ {i})

\* ------------------------------------------------------------------ messages
Msg(type, index, begin, len) == [type |-> type, index |-> index, begin |-> begin, length |-> len]
HandShakeMsg == Msg("HandShake", 0, 0, 0)
UnChokeMsg == Msg("UnChoke", 0, 0, 0)
InterestedMsg == Msg("Interested", 0, 0, 0)
RequestMsg(index, begin, len) == Msg("Request", index, begin, len)

PieceOf(index, begin, bytes) == [index |-> index, begin |-> begin, piece |-> bytes]

IgnoredTypes == {"Choke", "Interested", "NotInterested", "Have", "KeepAlive", "Request", "Cancel"}
MessageError == {"Timeout", "ReadError", "HandShakeError"}

\* What an untrusted peer may put on the wire.
BitfieldInputs == {<<>>} \cup {<<BitsByte(S)>> : S \in SUBSET Pieces}
PieceInputs ==
    {PieceOf(i, b, <<PayloadBlock(i, b)>>) : i \in Pieces, b \in Offsets}
        \cup {PieceOf(i, b, <<Junk>>) : i \in Pieces, b \in Offsets}

\* ------------------------------------------------------------- wire codec
\* The codec works on the bytes themselves (0 .. 255), not on block tags.
\* A decoded Message: Have keeps its byte in index; Bitfield and Piece keep
\* their bytes in body; HandShake keeps info_hash \o peer_id in body.
Message(type, index, begin, len, body) ==
    [type |-> type, index |-> index, begin |-> begin, length |-> len, body |-> body]

KeepAlive == Message("KeepAlive", 0, 0, 0, <<>>)

\* What a call produces: Ok(value), Err(error) or a panic.
Ok(v) == [res |-> "Ok", val |-> v]
Err(e) == [res |-> "Err", val |-> Message(e, 0, 0, 0, <<>>)]
Panic == [res |-> "panic", val |-> Message("panic", 0, 0, 0, <<>>)]

to_be_bytes(n) == <<n \div 16777216, (n \div 65536) % 256, (n \div 256) % 256, n % 256>>
from_be_bytes(b) == b[1] * 16777216 + b[2] * 65536 + b[3] * 256 + b[4]

\* buf[from..], 0-based as in the source.
SliceFrom(buf, from) == SubSeq(buf, from + 1, Len(buf))
\* buf[from..to], 0-based, `to` exclusive.
Slice(buf, from, to) == SubSeq(buf, from + 1, to)

Pstr == <<66, 105, 116, 84, 111, 114, 114, 101, 110, 116, 32,
          112, 114, 111, 116, 111, 99, 111, 108>>

HandShake_from_bytes(buf) ==
    IF Len(buf) < 68 \/ buf[1] # 19 \/ Slice(buf, 1, 20) # Pstr
    THEN Panic
    ELSE Ok(Message("HandShake", 0, 0, 0, Slice(buf, 28, 48) \o Slice(buf, 48, 68)))

HandShake_as_bytes(m) ==
    <<19>> \o Pstr \o [k \in 1 .. 8 |-> 0] \o Slice(m.body, 0, 20) \o Slice(m.body, 20, 40)

Request_as_bytes(m) ==
    to_be_bytes(13) \o <<6>> \o to_be_bytes(m.index) \o to_be_bytes(m.begin)
        \o to_be_bytes(m.length)

Request_from_bytes(buf) ==
    IF Len(buf) # 12 THEN Panic
    ELSE Ok(Message("Request", from_be_bytes(Slice(buf, 0, 4)), from_be_bytes(Slice(buf, 4, 8)),
                    from_be_bytes(Slice(buf, 8, 12)), <<>>))

Piece_from_bytes(buf) ==
    IF Len(buf) < 8 THEN Panic
    ELSE Ok(Message("Piece", from_be_bytes(Slice(buf, 0, 4)), from_be_bytes(Slice(buf, 4, 8)),
                    0, SliceFrom(buf, 8)))

Cancel_from_bytes(buf) ==
    IF Len(buf) # 12 THEN Panic
    ELSE Ok(Message("Cancel", from_be_bytes(Slice(buf, 0, 4)), from_be_bytes(Slice(buf, 4, 8)),
                    from_be_bytes(Slice(buf, 8, 12)), <<>>))

\* Message::from on the frame's body (the bytes after the length prefix).
from(buf) ==
    IF buf = <<>> THEN Ok(KeepAlive)
    ELSE CASE buf[1] = 0 -> Ok(Message("Choke", 0, 0, 0, <<>>))
           [] buf[1] = 1 -> Ok(Message("UnChoke", 0, 0, 0, <<>>))
           [] buf[1] = 2 -> Ok(Message("Interested", 0, 0, 0, <<>>))
           [] buf[1] = 3 -> Ok(Message("NotInterested", 0, 0, 0, <<>>))
           [] buf[1] = 4 -> IF Len(buf) < 2 THEN Panic
                            ELSE Ok(Message("Have", buf[2], 0, 0, <<>>))
           [] buf[1] = 5 -> Ok(Message("Bitfield", 0, 0, 0, SliceFrom(buf, 1)))
           [] buf[1] = 6 -> Request_from_bytes(SliceFrom(buf, 1))
           [] buf[1] = 7 -> Piece_from_bytes(SliceFrom(buf, 1))
           [] buf[1] = 8 -> Cancel_from_bytes(SliceFrom(buf, 1))
           [] OTHER -> Panic

\* Message::from_stream on a socket that holds st.bytes and then either stays
\* silent (the 3-second timeout fires) or is closed (the read fails).
from_stream(st) ==
    LET short(e) == IF st.end = "silent" THEN Err("Timeout") ELSE Err(e)
    IN  IF Len(st.bytes) < 4 THEN short("ReadError")
        ELSE LET buf == Slice(st.bytes, 0, 4)
                 dw == from_be_bytes(buf)
             IN  IF buf[1] = 19 /\ Slice(buf, 1, 4) = <<66, 105, 116>>
                 THEN IF Len(st.bytes) < 4 + 64 THEN short("HandShakeError")
                      ELSE HandShake_from_bytes(Slice(st.bytes, 0, 68))
                 ELSE IF Len(st.bytes) < 4 + dw THEN short("ReadError")
                      ELSE from(Slice(st.bytes, 4, 4 + dw))

no_body_message(code) == to_be_bytes(1) \o <<code>>

as_u8(m) ==
    CASE m.type = "Choke" -> 0
      [] m.type = "UnChoke" -> 1
      [] m.type = "Interested" -> 2
      [] m.type = "NotInterested" -> 3
      [] m.type = "Have" -> 4
      [] m.type = "Bitfield" -> 5
      [] m.type = "Request" -> 6
      [] m.type = "Piece" -> 7
      [] m.type = "Cancel" -> 8

\* Message::as_bytes: Have, Bitfield, Piece and Cancel are todo!().
as_bytes(m) ==
    CASE m.type = "HandShake" -> Ok(Message("bytes", 0, 0, 0, HandShake_as_bytes(m)))
      [] m.type = "KeepAlive" -> Ok(Message("bytes", 0, 0, 0, <<>>))
      [] m.type \in {"Choke", "UnChoke", "Interested", "NotInterested"} ->
            Ok(Message("bytes", 0, 0, 0, no_body_message(as_u8(m))))
      [] m.type = "Request" -> Ok(Message("bytes", 0, 0, 0, Request_as_bytes(m)))
      [] OTHER -> Panic

\* The byte streams the codec is run on: every frame with a body of at most
\* MaxBody bytes over the tags 0 .. MaxTag, frames cut short, and the longer
\* frames (Request, Cancel, Piece, HandShake), well-formed and not.
Bodies(n) == [1 .. n -> 0 .. MaxTag]
ShortFrames == UNION {{to_be_bytes(n) \o b : b \in Bodies(n)} : n \in 0 .. MaxBody}
RequestFrame == Request_as_bytes(Message("Request", 1, BLOCK_SIZE, BLOCK_SIZE, <<>>))
HandShakeFrame == HandShake_as_bytes(Message("HandShake", 0, 0, 0, [k \in 1 .. 40 |-> k]))
LongFrames ==
    {RequestFrame,
     SubSeq(to_be_bytes(12) \o SliceFrom(RequestFrame, 4), 1, 16),
     to_be_bytes(13) \o <<8>> \o SliceFrom(RequestFrame, 5),
     to_be_bytes(11) \o <<7>> \o to_be_bytes(1) \o to_be_bytes(BLOCK_SIZE) \o <<7, 7>>,
     to_be_bytes(5) \o <<7>> \o to_be_bytes(1),
     HandShakeFrame,
     [HandShakeFrame EXCEPT ![5] = 0],
     SubSeq(HandShakeFrame, 1, 20)}
CutFrames == {<<>>, <<0, 0>>, to_be_bytes(1), to_be_bytes(MaxBody) \o <<1>>}
Streams ==
    {[bytes |-> b, end |-> e] : b \in ShortFrames \cup LongFrames \cup CutFrames,
                                e \in {"silent", "closed"}}

\* ------------------------------------------------------- the shared queue
\* ArrayQueue::pop: <<popped (Option), rest>>.
queue_pop(q) == IF q = <<>> THEN <<None, q>> ELSE <<Some(Head(q)), Tail(q)>>

\* A push that puts the task at the head of the queue.
queue_push_front(q, t) ==
    IF Len(q) >= piece_num THEN [ok |-> FALSE, q |-> q] ELSE [ok |-> TRUE, q |-> <<t>> \o q]

\* ArrayQueue::push on a queue of capacity piece_num: Err (ok = FALSE) when it is full.
queue_push(q, t) ==
    IF Len(q) >= piece_num THEN [ok |-> FALSE, q |-> q] ELSE [ok |-> TRUE, q |-> Append(q, t)]

\* ------------------------------------------------------ Peer: pure helpers
\* None / Some(bool).
is_current_task_done(cur, rp) ==
    IF cur # None
    THEN Some(Len(rp) * BLOCK_SIZE >= Unwrap(cur).piece_length)
    ELSE None

\* Peer::fetch_task: [cur, q, event].  An empty queue leaves current_task as it is.
fetch_task(cur, q) ==
    LET r == queue_pop(q)
    IN  IF r[1] = None
        THEN [cur |-> cur, q |-> q, event |-> "Exit"]
        ELSE [cur |-> r[1], q |-> r[2], event |-> "Continue"]

\* put_task_back pushing a copy of the task and keeping current_task.
put_task_back_keep(cur, q) ==
    IF cur = None
    THEN [cur |-> None, q |-> q, panic |-> TRUE]
    ELSE LET r == queue_push(q, Unwrap(cur))
         IN  IF ~r.ok
             THEN [cur |-> cur, q |-> q, panic |-> TRUE]
             ELSE [cur |-> cur, q |-> r.q, panic |-> FALSE]

\* put_task_back taking the task and not pushing it.
put_task_back_lose(cur, q) ==
    IF cur = None
    THEN [cur |-> None, q |-> q, panic |-> TRUE]
    ELSE [cur |-> None, q |-> q, panic |-> FALSE]

\* Peer::put_task_back: [cur, q, panic].  take() empties current_task before the push.
put_task_back(cur, q) ==
    IF cur = None
    THEN [cur |-> None, q |-> q, panic |-> TRUE]
    ELSE LET r == queue_push(q, Unwrap(cur))
         IN  IF ~r.ok
             THEN [cur |-> None, q |-> q, panic |-> TRUE]
             ELSE [cur |-> None, q |-> r.q, panic |-> FALSE]

\* Peer::request_piece: the Requests it writes, in order.  With no current task
\* the unwrap in its loop condition panics and nothing is written.
request_piece(cur) ==
    IF cur = None
    THEN <<>>
    ELSE [k \in 1 .. (Unwrap(cur).piece_length \div BLOCK_SIZE) |->
            RequestMsg(Unwrap(cur).index, (k - 1) * BLOCK_SIZE, BLOCK_SIZE)]

\* sort_by_key(|piece| piece.begin): a stable sort.
RECURSIVE InsertByBegin(_, _)
InsertByBegin(sorted, p) ==
    IF sorted = <<>> THEN <<p>>
    ELSE IF Head(sorted).begin <= p.begin
         THEN <<Head(sorted)>> \o InsertByBegin(Tail(sorted), p)
         ELSE <<p>> \o sorted

RECURSIVE SortByBegin(_)
SortByBegin(ps) ==
    IF ps = <<>> THEN <<>>
    ELSE InsertByBegin(SortByBegin(SubSeq(ps, 1, Len(ps) - 1)), ps[Len(ps)])

RECURSIVE ConcatBytes(_)
ConcatBytes(ps) == IF ps = <<>> THEN <<>> ELSE Head(ps).piece \o ConcatBytes(Tail(ps))

\* OpenOptions create + append, then the first n sorted blocks written.
\* file: Option<bytes> of {name}/{name}-cache-{index}.
save_pieces(file, rp, n) ==
    LET old == IF file = None THEN <<>> ELSE Unwrap(file)
    IN  Some(old \o ConcatBytes(SubSeq(SortByBegin(rp), 1, n)))

\* Peer::check_sum on the bytes read back: TRUE iff Ok.
check_sum(task, file) ==
    IF file = None THEN FALSE ELSE task.piece_hash = Sha1(Unwrap(file))

\* --------------------------------------------------------------------- state
VARIABLES
    orch,        \* send_request's position
    task_queue,  \* Arc<ArrayQueue<Task>>
    cache,       \* {name}/{name}-cache-{i}: Option<bytes> per piece index
    name_dir,    \* whether the directory {name}/ exists
    output,      \* the output file {name}: Option<bytes>
    peers,       \* per worker: its Peer and its position in try_download
    verified,    \* piece indices whose check_sum has returned Ok
    honest,      \* per peer: follows the protocol and answers every Request
    faults,      \* whether disk operations may fail
    owed,        \* honest peer: Requests received and not yet answered
    peer_step,   \* honest peer: the frames it has sent (HandShake, Bitfield, UnChoke, blocks)
    msgs,        \* untrusted peers' frames, failed reads and disk faults so far
    stream,      \* codec: the bytes the socket holds, and how it ends
    msg_read,    \* codec: what Message::from_stream returned (Option)
    wire_out     \* codec: what Message::as_bytes returned for it (Option)

shared == <<orch, task_queue, cache, name_dir, output, verified>>
codec == <<stream, msg_read, wire_out>>
env == <<honest, faults, owed, peer_step, msgs, codec>>
vars == <<shared, peers, env>>

\* A Peer as Peers::new builds it, with the worker's bookkeeping:
\*   status     unspawned / running / exited (Ok(Exit)) / error (Err) / panicked
\*   pc         the worker's position in try_download
\*   last_read  the result of its latest Message::from_stream
\*   last_check the result of check_sum in its latest step ("none": not called)
\*   out        the frames its latest step wrote to the socket
\*   interested_sent  whether it has written Interested
NewPeer ==
    [status |-> "unspawned", pc |-> "connect", state |-> "Preparing", id |-> None,
     bitfield |-> None, current_task |-> None, received_pieces |-> <<>>,
     last_read |-> "none", last_check |-> "none", out |-> <<>>, interested_sent |-> FALSE]

Running(w) == peers[w].status = "running"
Terminated(w) == peers[w].status \in {"exited", "error", "panicked"}

\* try_download takes the Peer by value: when the worker ends, the Peer is
\* dropped, and with it the task it still holds.  What its last step wrote
\* is on the socket already.
Drop(p) ==
    IF p.status \in {"exited", "error", "panicked"}
    THEN [NewPeer EXCEPT !.status = p.status, !.current_task = p.current_task,
                         !.last_check = p.last_check, !.out = p.out]
    ELSE p

\* The Peer at the start of a step: nothing checked or written yet.
Fresh(p) == [p EXCEPT !.last_check = "none", !.out = <<>>]

SetPeer(w, p) == peers' = [peers EXCEPT ![w] = Drop(p)]

FullBitfield == <<BitsByte(Pieces)>>

InitCommon ==
    /\ orch = "assign"
    /\ task_queue = <<>>
    /\ cache = [i \in Pieces |-> None]
    /\ name_dir = FALSE
    /\ output = None
    /\ peers = [w \in Workers |-> NewPeer]
    /\ verified = {}
    /\ owed = [w \in Workers |-> <<>>]
    /\ peer_step = [w \in Workers |-> 0]
    /\ msgs = 0

\* The download runs on a socket of its own; the codec's stream is not used.
CodecIdle ==
    /\ stream = [bytes |-> <<>>, end |-> "closed"]
    /\ msg_read = None
    /\ wire_out = None

\* Every peer is untrusted; the disk may fail.
Init ==
    /\ InitCommon
    /\ CodecIdle
    /\ honest = [w \in Workers |-> FALSE]
    /\ faults = TRUE

\* Peer 1 is honest and has every piece; the others are untrusted; the disk works.
HonestInit ==
    /\ InitCommon
    /\ CodecIdle
    /\ honest = [w \in Workers |-> w = 1]
    /\ faults = FALSE

\* ------------------------------------------------------------- environment
\* How many of n frames a write sequence gets onto the socket before
\* write_all fails (n: none fails).  An honest peer's connection does not fail.
Writes(w, n) == IF honest[w] THEN {n} ELSE 0 .. n

IsRequest(m) == m.type = "Request"

\* The peer's side of one worker step: `consumed` is what the step read from the
\* peer ("none", "script" for HandShake / Bitfield / UnChoke, "piece", "error"
\* for a failed read), o what the step wrote.
EnvF(w, consumed, o, fault) ==
    /\ peer_step' = [peer_step EXCEPT ![w] =
                        IF honest[w] /\ consumed \in {"script", "piece"} THEN @ + 1 ELSE @]
    /\ owed' = [owed EXCEPT ![w] =
                   IF honest[w]
                   THEN (IF consumed = "piece" THEN Tail(@) ELSE @) \o SelectSeq(o, IsRequest)
                   ELSE @]
    /\ msgs' = msgs + (IF ~honest[w] /\ consumed # "none" THEN 1 ELSE 0)
                    + (IF fault THEN 1 ELSE 0)
    /\ UNCHANGED <<honest, faults, codec>>

Env(w, consumed, o) == EnvF(w, consumed, o, FALSE)

\* Whether a disk operation of the step that reads the next frame may fail.
DiskFaults == faults /\ msgs + 1 < MaxMsgs

Budget == msgs < MaxMsgs

HandShakeIn(w) ==
    IF honest[w] THEN (IF peer_step[w] = 0 THEN {w} ELSE {})
    ELSE IF Budget THEN {w} ELSE {}

BitfieldIn(w) ==
    IF honest[w] THEN (IF peer_step[w] = 1 THEN {FullBitfield} ELSE {})
    ELSE IF Budget THEN BitfieldInputs ELSE {}

UnChokeIn(w) ==
    IF honest[w] THEN (IF peer_step[w] = 2 /\ peers[w].interested_sent THEN {TRUE} ELSE {})
    ELSE IF Budget THEN {TRUE} ELSE {}

\* An honest peer answers the Requests in order; it serves MaxAnswers blocks
\* and then stays silent.
PieceIn(w) ==
    IF honest[w]
    THEN (IF peer_step[w] >= 3 /\ peer_step[w] < 3 + MaxAnswers /\ owed[w] # <<>>
          THEN {PieceOf(Head(owed[w]).index, Head(owed[w]).begin,
                        <<PayloadBlock(Head(owed[w]).index, Head(owed[w]).begin)>>)}
          ELSE {})
    ELSE IF Budget THEN PieceInputs ELSE {}

\* An honest peer with nothing to send lets the 3-second read time out.
ReadErrorIn(w) ==
    IF honest[w]
    THEN (IF HandShakeIn(w) = {} /\ BitfieldIn(w) = {} /\ UnChokeIn(w) = {} /\ PieceIn(w) = {}
          THEN {"Timeout"} ELSE {})
    ELSE IF Budget THEN MessageError ELSE {}

\* ------------------------------------------------------------ orchestrator
\* Seeding that stops one index early.
RECURSIVE AssignFromOffByOne(_, _)
AssignFromOffByOne(index, q) ==
    IF index + 1 >= length \div piece_length THEN q
    ELSE AssignFromOffByOne(index + 1, queue_push(q, TaskOf(index)).q)

RECURSIVE AssignFrom(_, _)
AssignFrom(index, q) ==
    IF index >= length \div piece_length THEN q
    ELSE IF has_piece(BitfieldNew(piece_num), index) = "no"
         THEN AssignFrom(index + 1, queue_push(q, TaskOf(index)).q)
         ELSE AssignFrom(index + 1, q)

assign_tasks ==
    /\ orch = "assign"
    /\ task_queue' = AssignFrom(0, task_queue)
    /\ orch' = "look_for_peers"
    /\ UNCHANGED <<cache, name_dir, output, verified, peers, env>>

\* The tracker answers with the peer list (one worker is spawned per peer) or fails.
look_for_peers ==
    /\ orch = "look_for_peers"
    /\ \E ok \in (IF \E w \in Workers : honest[w] THEN {TRUE} ELSE BOOLEAN) :
          IF ok
          THEN /\ orch' = "wait"
               /\ peers' = [w \in Workers |-> [peers[w] EXCEPT !.status = "running"]]
          ELSE /\ orch' = "failed"
               /\ UNCHANGED peers
    /\ UNCHANGED <<task_queue, cache, name_dir, output, verified, env>>

\* The file {name}-cache-{index} that concat_cache looks for (in the working
\* directory, where no worker writes).
CwdCacheFile(index) == None

RECURSIVE ConcatFrom(_)
ConcatFrom(index) ==
    IF index >= piece_num THEN <<>>
    ELSE (IF CwdCacheFile(index) = None THEN <<>> ELSE Unwrap(CwdCacheFile(index)))
             \o ConcatFrom(index + 1)

\* concat_cache run without waiting for the workers.
concat_cache_nowait ==
    /\ orch = "wait"
    /\ IF name_dir
       THEN /\ orch' = "concat_err"
            /\ UNCHANGED output
       ELSE /\ orch' = "done"
            /\ output' = Some(ConcatFrom(0))
    /\ UNCHANGED <<task_queue, cache, name_dir, verified, peers, env>>

\* wg.wait() has returned: every worker's future is dropped.  Opening {name}
\* for writing fails when save_pieces has made it a directory.
concat_cache ==
    /\ orch = "wait"
    /\ \A w \in Workers : Terminated(w)
    /\ IF name_dir
       THEN /\ orch' = "concat_err"
            /\ UNCHANGED output
       ELSE /\ orch' = "done"
            /\ output' = Some(ConcatFrom(0))
    /\ UNCHANGED <<task_queue, cache, name_dir, verified, peers, env>>

\* ------------------------------------------------------------------ worker
\* Peer::try_fetch_task up to its first queue operation, as the set of its
\* outcomes [cur, rp, q, files, dir, ver, next, fault, check] (fault: a disk
\* operation failed; check: what check_sum returned):
\*   next = "exit"      fetch_task found the queue empty (Ok(Exit))
\*          "continue"  Ok(Continue), or an Err (the callers drop it)
\*          "fetch"     the piece was saved and checked; fetch_task and
\*                      request_piece follow (FetchNext)
\*          "panic"     put_task_back's push found the queue full
\* Some(true): save_pieces, then check_sum, and put_task_back when it is Err.
SaveAndCheck(cur, rp, q, files, dir, flt) ==
    LET t == Unwrap(cur)
        file == files[t.index]
        nochange == [cur |-> cur, rp |-> rp, q |-> q, files |-> files, dir |-> dir,
                     ver |-> {}, next |-> "continue", fault |-> TRUE, check |-> "none"]
        written(n) == [files EXCEPT ![t.index] = save_pieces(file, rp, n)]
        cut(n) == [files EXCEPT ![t.index] =
                      Some(Unwrap(save_pieces(file, rp, n)) \o <<PartialBlock>>)]
        whole == written(Len(rp))
        back == put_task_back(cur, q)
        failed == [cur |-> back.cur, rp |-> <<>>, q |-> back.q, files |-> whole, dir |-> TRUE,
                   ver |-> {}, next |-> IF back.panic THEN "panic" ELSE "fetch",
                   fault |-> FALSE, check |-> "Err"]
        passed == [cur |-> cur, rp |-> <<>>, q |-> q, files |-> whole, dir |-> TRUE,
                   ver |-> {t.index}, next |-> "fetch", fault |-> FALSE, check |-> "Ok"]
    IN  \* create_dir_all fails (the directory is still missing), or the open
        \* fails (the directory exists): Err before anything is drained
        (IF flt THEN {nochange, [nochange EXCEPT !.dir = TRUE]} ELSE {})
        \* a write fails after n blocks, at a block's boundary or inside the
        \* next block: Err, the accumulator is already drained
        \cup (IF flt
              THEN {[nochange EXCEPT !.rp = <<>>, !.files = written(n), !.dir = TRUE] :
                        n \in 0 .. (Len(rp) - 1)}
                   \cup {[nochange EXCEPT !.rp = <<>>, !.files = cut(n), !.dir = TRUE] :
                        n \in 0 .. (Len(rp) - 1)}
              ELSE {})
        \* saved; check_sum cannot read the file back: Err
        \cup (IF flt THEN {[failed EXCEPT !.fault = TRUE]} ELSE {})
        \* saved; check_sum compares the digests
        \cup {IF check_sum(t, whole[t.index]) THEN passed ELSE failed}

try_fetch_task(cur, rp, q, files, dir, flt) ==
    LET done == is_current_task_done(cur, rp)
        same == [cur |-> cur, rp |-> rp, q |-> q, files |-> files, dir |-> dir,
                 ver |-> {}, next |-> "continue", fault |-> FALSE, check |-> "none"]
    IN  IF done = None
        THEN LET f == fetch_task(cur, q)
             IN  {[same EXCEPT !.cur = f.cur, !.q = f.q,
                               !.next = IF f.event = "Exit" THEN "exit" ELSE "continue"]}
        ELSE IF Unwrap(done)
             THEN SaveAndCheck(cur, rp, q, files, dir, flt)
             ELSE {same}

\* Where a handler goes on after try_fetch_task: the Bitfield handler to its
\* skip loop, the Piece handler back to read_message.
After(ret) == IF ret = "bf" THEN "bf_loop" ELSE "read"

\* One try_fetch_task outcome r in handler ret, applied to the Peer p.
AfterFetch(p, r, ret) ==
    [p EXCEPT !.current_task = r.cur,
              !.received_pieces = r.rp,
              !.last_check = r.check,
              !.status = CASE r.next = "exit" -> "exited"
                           [] r.next = "panic" -> "panicked"
                           [] OTHER -> @,
              !.pc = CASE r.next = "continue" -> After(ret)
                       [] r.next = "fetch" ->
                            (IF ret = "bf" THEN "tft_fetch_bf" ELSE "tft_fetch_pc")
                       [] OTHER -> @]

ApplyShared(r) ==
    /\ task_queue' = r.q
    /\ cache' = r.files
    /\ name_dir' = r.dir
    /\ verified' = verified \cup r.ver
    /\ UNCHANGED <<orch, output>>

AtRead(w) == Running(w) /\ peers[w].pc = "read"

try_connect(w) ==
    /\ Running(w) /\ peers[w].pc = "connect"
    /\ \E ok \in (IF honest[w] THEN {TRUE} ELSE BOOLEAN) :
          SetPeer(w, IF ok THEN [Fresh(peers[w]) EXCEPT !.pc = "handshake"]
                           ELSE [Fresh(peers[w]) EXCEPT !.status = "error"])
    /\ UNCHANGED <<shared, env>>

handshake(w) ==
    /\ Running(w) /\ peers[w].pc = "handshake"
    /\ \E k \in Writes(w, 1) :
          LET o == SubSeq(<<HandShakeMsg>>, 1, k)
              p == [Fresh(peers[w]) EXCEPT !.state = "Preparing", !.out = o]
          IN  /\ SetPeer(w, IF k = 1 THEN [p EXCEPT !.pc = "read"]
                                     ELSE [p EXCEPT !.status = "error"])
              /\ Env(w, "none", o)
    /\ UNCHANGED shared

\* Message::from_stream is Err: read_message answers Ok(Continue).
read_error(w) ==
    /\ AtRead(w)
    /\ \E e \in ReadErrorIn(w) :
          SetPeer(w, [Fresh(peers[w]) EXCEPT !.last_read = e])
    /\ Env(w, "error", <<>>)
    /\ UNCHANGED shared

\* A frame the decoder panics on (unreachable!, assert!, a slice out of range).
read_malformed(w) ==
    /\ AtRead(w) /\ ~honest[w]
    /\ SetPeer(w, [Fresh(peers[w]) EXCEPT !.status = "panicked"])
    /\ UNCHANGED <<shared, env>>

\* Choke, NotInterested, Have, KeepAlive, Request, Cancel, Interested: `_ => {}`.
recv_ignored(w) ==
    /\ AtRead(w) /\ ~honest[w]
    /\ SetPeer(w, [Fresh(peers[w]) EXCEPT !.last_read = "Ok"])
    /\ UNCHANGED <<shared, env>>

recv_HandShake(w) ==
    /\ AtRead(w)
    /\ \E peer_id \in HandShakeIn(w), k \in Writes(w, 1) :
          LET o == SubSeq(<<UnChokeMsg>>, 1, k)
              p == [Fresh(peers[w]) EXCEPT !.id = Some(peer_id), !.last_read = "Ok", !.out = o]
          IN  /\ SetPeer(w, IF k = 1 THEN p ELSE [p EXCEPT !.status = "error"])
              /\ Env(w, "script", o)
    /\ UNCHANGED shared

recv_Bitfield(w) ==
    /\ AtRead(w)
    /\ \E bf \in BitfieldIn(w) :
          \E r \in try_fetch_task(peers[w].current_task, peers[w].received_pieces,
                                  task_queue, cache, name_dir, DiskFaults) :
             /\ SetPeer(w, AfterFetch([Fresh(peers[w]) EXCEPT !.bitfield = Some(bf),
                                                       !.last_read = "Ok"],
                                      r, "bf"))
             /\ ApplyShared(r)
             /\ EnvF(w, "script", <<>>, r.fault)

recv_Piece(w) ==
    /\ AtRead(w)
    /\ \E piece \in PieceIn(w) :
          \E r \in try_fetch_task(peers[w].current_task,
                                  Append(peers[w].received_pieces, piece),
                                  task_queue, cache, name_dir, DiskFaults) :
             /\ SetPeer(w, AfterFetch([Fresh(peers[w]) EXCEPT !.last_read = "Ok"],
                                      r, "pc"))
             /\ ApplyShared(r)
             /\ EnvF(w, "piece", <<>>, r.fault)

recv_UnChoke(w) ==
    /\ AtRead(w)
    /\ UnChokeIn(w) # {}
    /\ LET p == [Fresh(peers[w]) EXCEPT !.last_read = "Ok"]
           reqs == request_piece(p.current_task)
       IN  IF p.state = "Busy"
           THEN SetPeer(w, p) /\ Env(w, "script", <<>>)
           ELSE IF p.current_task = None
                THEN SetPeer(w, [p EXCEPT !.status = "panicked"]) /\ Env(w, "script", <<>>)
                ELSE \E k \in Writes(w, Len(reqs)) :
                        /\ SetPeer(w, IF k = Len(reqs)
                                      THEN [p EXCEPT !.out = reqs, !.state = "Busy"]
                                      ELSE [p EXCEPT !.out = SubSeq(reqs, 1, k),
                                                     !.status = "error"])
                        /\ Env(w, "script", SubSeq(reqs, 1, k))
    /\ UNCHANGED shared

\* try_fetch_task after a saved piece: `self.fetch_task()?` (its Exit is
\* dropped), then request_piece, whose Err the calling handler drops.
FetchNext(w) ==
    /\ Running(w) /\ peers[w].pc \in {"tft_fetch_bf", "tft_fetch_pc"}
    /\ LET f == fetch_task(peers[w].current_task, task_queue)
           ret == IF peers[w].pc = "tft_fetch_bf" THEN "bf" ELSE "pc"
           p == [Fresh(peers[w]) EXCEPT !.current_task = f.cur]
           reqs == request_piece(f.cur)
       IN  /\ task_queue' = f.q
           /\ IF f.cur = None
              THEN SetPeer(w, [p EXCEPT !.status = "panicked"]) /\ Env(w, "none", <<>>)
              ELSE \E k \in Writes(w, Len(reqs)) :
                      /\ SetPeer(w, [p EXCEPT !.out = SubSeq(reqs, 1, k), !.pc = After(ret)])
                      /\ Env(w, "none", SubSeq(reqs, 1, k))
    /\ UNCHANGED <<orch, cache, name_dir, output, verified>>

\* One test of the Bitfield handler's loop: a task the peer lacks is pushed
\* back, a task it has ends the loop with Interested.
BitfieldLoop(w) ==
    /\ Running(w) /\ peers[w].pc = "bf_loop"
    /\ LET p == Fresh(peers[w])
           has == has_piece(Unwrap(p.bitfield), Unwrap(p.current_task).index)
           back == put_task_back(p.current_task, task_queue)
       IN  IF p.current_task = None
           THEN /\ SetPeer(w, [p EXCEPT !.status = "panicked"])
                /\ Env(w, "none", <<>>)
                /\ UNCHANGED task_queue
           ELSE CASE has = "panic" ->
                       /\ SetPeer(w, [p EXCEPT !.status = "panicked"])
                       /\ Env(w, "none", <<>>)
                       /\ UNCHANGED task_queue
                  [] has = "no" ->
                       /\ SetPeer(w, IF back.panic
                                     THEN [p EXCEPT !.current_task = back.cur,
                                                    !.status = "panicked"]
                                     ELSE [p EXCEPT !.current_task = back.cur,
                                                    !.pc = "bf_fetch"])
                       /\ task_queue' = back.q
                       /\ Env(w, "none", <<>>)
                  [] has = "yes" ->
                       /\ \E k \in Writes(w, 1) :
                             /\ SetPeer(w, IF k = 1
                                           THEN [p EXCEPT !.out = <<InterestedMsg>>,
                                                          !.interested_sent = TRUE,
                                                          !.pc = "read"]
                                           ELSE [p EXCEPT !.status = "error"])
                             /\ Env(w, "none", <<>>)
                       /\ UNCHANGED task_queue
    /\ UNCHANGED <<orch, cache, name_dir, output, verified>>

\* `self.fetch_task()?` inside the loop: its Exit is dropped.
BitfieldFetch(w) ==
    /\ Running(w) /\ peers[w].pc = "bf_fetch"
    /\ LET f == fetch_task(peers[w].current_task, task_queue)
       IN  /\ task_queue' = f.q
           /\ SetPeer(w, [Fresh(peers[w]) EXCEPT !.current_task = f.cur, !.pc = "bf_loop"])
    /\ UNCHANGED <<orch, cache, name_dir, output, verified, env>>

WorkerStep(w) ==
    \/ try_connect(w)
    \/ handshake(w)
    \/ read_error(w)
    \/ read_malformed(w)
    \/ recv_ignored(w)
    \/ recv_HandShake(w)
    \/ recv_Bitfield(w)
    \/ recv_Piece(w)
    \/ recv_UnChoke(w)
    \/ FetchNext(w)
    \/ BitfieldLoop(w)
    \/ BitfieldFetch(w)

OrchStep == assign_tasks \/ look_for_peers \/ concat_cache

Next == OrchStep \/ \E w \in Workers : WorkerStep(w)

Spec == Init /\ [][Next]_vars

\* The loop of the Bitfield handler has no .await: a worker inside it keeps
\* its runtime thread and never returns to the scheduler.
Spinning(w) == Running(w) /\ peers[w].pc \in {"bf_loop", "bf_fetch"}

\* The runtime polls a live worker again, unless another worker spins on the
\* thread it needs: the number of runtime threads is the machine's, possibly
\* one.
Polled(w) == Spinning(w) \/ \A v \in Workers \ {w} : ~Spinning(v)

\* The steps a worker takes without hearing from its peer: the connect (it
\* ends within its 3-second timeout), the writes and the queue operations.
\* A read is not among them: read_message answers Ok(Continue) to every
\* failed read, so a worker whose peer sends nothing reads for ever.
LocalStep(w) ==
    \/ try_connect(w)
    \/ handshake(w)
    \/ FetchNext(w)
    \/ BitfieldLoop(w)
    \/ BitfieldFetch(w)

\* The orchestrator runs on the main thread; a polled worker takes its next
\* local step.  Nothing obliges a peer to send.
Fairness ==
    /\ WF_vars(OrchStep)
    /\ \A w \in Workers : WF_vars(LocalStep(w) /\ Polled(w))

\* The frames of an honest peer arrive, and its polled worker reads them.
HonestDelivery(w) ==
    /\ honest[w]
    /\ recv_HandShake(w) \/ recv_Bitfield(w) \/ recv_UnChoke(w) \/ recv_Piece(w)

HonestFairness == \A w \in Workers : WF_vars(HonestDelivery(w) /\ Polled(w))

FairSpec == Init /\ [][Next]_vars /\ Fairness

HonestSpec == HonestInit /\ [][Next]_vars /\ Fairness /\ HonestFairness

\* ---------------------------------------------------------- codec runs
\* One frame read from a stream and written back, with no download going on.
CodecInit ==
    /\ InitCommon
    /\ honest = [w \in Workers |-> FALSE]
    /\ faults = FALSE
    /\ stream \in Streams
    /\ msg_read = None
    /\ wire_out = None

\* read_message's Message::from_stream(stream).
ReadFrame ==
    /\ msg_read = None
    /\ msg_read' = Some(from_stream(stream))
    /\ UNCHANGED <<shared, peers, honest, faults, owed, peer_step, msgs, stream, wire_out>>

\* send_message's msg.as_bytes() on the message that was read.
WriteFrame ==
    /\ msg_read # None /\ Unwrap(msg_read).res = "Ok"
    /\ wire_out = None
    /\ wire_out' = Some(as_bytes(Unwrap(msg_read).val))
    /\ UNCHANGED <<shared, peers, honest, faults, owed, peer_step, msgs, stream, msg_read>>

CodecNext == ReadFrame \/ WriteFrame

CodecSpec == CodecInit /\ [][CodecNext]_vars

\* ------------------------------------------------- one task's exchange
\* A download of one piece of any piece length from an honest peer that has
\* it and answers every Request exactly once, in order.  The run starts where
\* the Bitfield handler has ended: the worker holds the task and has written
\* Interested; no other peer is connected.
LenStep == BLOCK_SIZE \div 4
PieceLengths ==
    {n \in {k * LenStep + d : k \in 0 .. MaxLenSteps, d \in {-1, 0, 1}} : n >= 1}

\* The bytes of a piece of plen bytes: its whole blocks and, when plen is not
\* a multiple of BLOCK_SIZE, its shorter last block.
PieceBytes(plen) ==
    [k \in 1 .. (plen \div BLOCK_SIZE) |-> PayloadBlock(0, (k - 1) * BLOCK_SIZE)]
        \o (IF plen % BLOCK_SIZE = 0 THEN <<>> ELSE <<PartialBlock>>)

ExchangeInit ==
    /\ orch = "wait"
    /\ task_queue = <<>>
    /\ cache = [i \in Pieces |-> None]
    /\ name_dir = FALSE
    /\ output = None
    /\ verified = {}
    /\ \E plen \in PieceLengths :
          peers = [w \in Workers |->
                      IF w = 1
                      THEN [NewPeer EXCEPT !.status = "running", !.pc = "read",
                                           !.id = Some(1), !.bitfield = Some(FullBitfield),
                                           !.current_task = Some(Task(0, plen, Sha1(PieceBytes(plen)))),
                                           !.last_read = "Ok", !.out = <<InterestedMsg>>,
                                           !.interested_sent = TRUE]
                      ELSE [NewPeer EXCEPT !.status = "error"]]
    /\ honest = [w \in Workers |-> w = 1]
    /\ faults = FALSE
    /\ owed = [w \in Workers |-> <<>>]
    /\ peer_step = [w \in Workers |-> IF w = 1 THEN 2 ELSE 0]
    /\ msgs = 0
    /\ CodecIdle

ExchangeNext == recv_UnChoke(1) \/ recv_Piece(1) \/ FetchNext(1) \/ read_error(1)

ExchangeSpec == ExchangeInit /\ [][ExchangeNext]_vars

\* ==================================================================== claims
HeldBy(w, i) ==
    /\ peers[w].current_task # None
    /\ Unwrap(peers[w].current_task).index = i

Holders(i) == {w \in Workers : HeldBy(w, i)}
LiveHolders(i) == {w \in Workers : Running(w) /\ HeldBy(w, i)}
QueuedAt(i) == {k \in 1 .. Len(task_queue) : task_queue[k].index = i}

Digest(file) == Sha1(Unwrap(file))
InFetch(p) == p.pc \in {"tft_fetch_bf", "tft_fetch_pc"}
HasRequest(o) == \E k \in 1 .. Len(o) : o[k].type = "Request"

\* C1 -- At-most-one ownership: for every piece index at most one worker has a
\* current_task with that index, and a task a worker holds is not in the
\* queue at the same time, whatever the interleaving of pops and push-backs.
AtMostOneOwnership ==
    \A i \in Pieces :
        /\ Cardinality(Holders(i)) <= 1
        /\ Holders(i) # {} => QueuedAt(i) = {}
        /\ Cardinality(QueuedAt(i)) <= 1

\* C1 witness: a worker stands between its push-back and its next pop while
\* the other worker holds a task that this worker's peer lacks and the queue
\* has been popped empty.
AtMostOneOwnershipWitness ==
    \E w1, w2 \in Workers :
        /\ w1 # w2
        /\ Running(w1) /\ peers[w1].pc = "bf_fetch"
        /\ Running(w2) /\ peers[w2].current_task # None
        /\ has_piece(Unwrap(peers[w1].bitfield), Unwrap(peers[w2].current_task).index) = "no"
        /\ task_queue = <<>>

\* C2 -- Queue conservation: after seeding, the tasks in the queue together
\* with the tasks held by live workers are exactly the tasks of the pieces not
\* yet verified, each once.
QueueConservation ==
    orch # "assign" =>
        \A i \in Pieces :
            Cardinality(QueuedAt(i)) + Cardinality(LiveHolders(i))
                = (IF i \in verified THEN 0 ELSE 1)

\* C3 -- A worker whose loop ended on a fatal error (a failed write, a disk
\* error) has pushed its current task back before it is dropped: it is
\* dropped holding no task.
FatalErrorReturnsTask ==
    \A w \in Workers : peers[w].status = "error" => peers[w].current_task = None

\* C4 -- A failed read (Timeout, ReadError, HandShakeError) ends the worker:
\* no worker whose latest read failed is still running.
ReadFailureIsFatal ==
    \A w \in Workers : peers[w].last_read \in MessageError => ~Running(w)

\* A step of worker w in which check_sum compared the saved file of task t
\* against t's hash and they differed.
MismatchStep(w) ==
    /\ Running(w) /\ peers[w].pc = "read"
    /\ peers[w].current_task # None
    /\ peers'[w].last_check = "Err"
    /\ cache'[Unwrap(peers[w].current_task).index] # None
    /\ Digest(cache'[Unwrap(peers[w].current_task).index])
           # Unwrap(peers[w].current_task).piece_hash

\* C5 -- On a SHA-1 mismatch the accumulator is cleared, the task is pushed
\* back at the tail of the queue, and the worker stays alive, holds no task
\* and goes on to fetch a next task.
MismatchRedelivers ==
    [][\A w \in Workers :
          MismatchStep(w) =>
              /\ peers'[w].received_pieces = <<>>
              /\ task_queue' = Append(task_queue, Unwrap(peers[w].current_task))
              /\ peers'[w].current_task = None
              /\ peers'[w].status = "running"
              /\ InFetch(peers'[w])]_vars

\* C5 witness: a live worker has just found a mismatch: the stale file is on
\* disk, its task is back in the queue and the worker is about to fetch.
MismatchRedeliversWitness ==
    \E w \in Workers, i \in Pieces :
        /\ Running(w) /\ peers[w].last_check = "Err" /\ InFetch(peers[w])
        /\ cache[i] # None /\ Digest(cache[i]) # piece_hashes[i]
        /\ QueuedAt(i) # {}
        /\ task_queue[Len(task_queue)].index = i

\* C6 -- Clean exit on a drained queue: a worker that has saved and verified
\* its task and whose following pop finds the queue empty exits (Exit) and
\* writes no further Request.
CleanExitOnDrainedQueue ==
    [][\A w \in Workers :
          (/\ Running(w) /\ InFetch(peers[w]) /\ peers[w].last_check = "Ok"
           /\ task_queue = <<>>
           /\ peers'[w] # peers[w])
          => /\ peers'[w].status = "exited"
             /\ ~HasRequest(peers'[w].out)]_vars

ConcatStarts ==
    \/ orch \in {"done", "concat_err"}
    \/ orch = "wait" /\ \A w \in Workers : Terminated(w)

\* C7 -- Piece integrity at concat time: when concatenation starts, every
\* cache file that exists has the SHA-1 of its piece.
PieceIntegrityAtConcat ==
    ConcatStarts =>
        \A i \in Pieces : cache[i] # None => Digest(cache[i]) = piece_hashes[i]

\* C8 -- End-to-end: with an honest peer that has every piece, the download
\* eventually finishes and the output file equals the payload.
EndToEnd == <>(orch = "done" /\ output = Some(Payload))

\* C9 -- Task acquisition respects the peer's bitfield: a worker that knows
\* its peer's bitfield writes no Request for a piece index the bitfield does
\* not have.
RequestsRespectBitfield ==
    \A w \in Workers :
        \A k \in 1 .. Len(peers[w].out) :
            (peers[w].out[k].type = "Request" /\ peers[w].bitfield # None)
                => has_piece(Unwrap(peers[w].bitfield), peers[w].out[k].index) = "yes"

ZeroBitfield == [k \in 1 .. Len(FullBitfield) |-> 0]

\* C10 -- A worker that has received an all-zero Bitfield eventually
\* terminates, holding no task.
ZeroBitfieldExits ==
    \A w \in Workers :
        (Running(w) /\ peers[w].bitfield = Some(ZeroBitfield))
            ~> (Terminated(w) /\ peers[w].current_task = None)

\* C11 -- Push-back never fails: the queue never holds more than piece_num
\* tasks, and in every state in which a worker holds a task the push of that
\* task succeeds (the queue has a free slot for it).
PushBackNeverFails ==
    /\ Len(task_queue) <= piece_num
    /\ \A w \in Workers :
          peers[w].current_task # None
              => queue_push(task_queue, Unwrap(peers[w].current_task)).ok

\* C11 witness: a worker has just pushed its task back and the queue is at
\* its capacity.
PushBackNeverFailsWitness ==
    \E w \in Workers :
        /\ Running(w) /\ peers[w].pc = "bf_fetch"
        /\ Len(task_queue) = piece_num

SeededQueue == [k \in 1 .. piece_num |-> Task(k - 1, piece_length, piece_hashes[k - 1])]

\* C12 -- Task seeding: after assign_tasks and before any worker is spawned
\* the queue holds, in ascending index order, exactly one task for every
\* index below piece_num (no bit of the fresh local bitfield is set), each
\* with piece_length and the hash piece_hashes[index].
TaskSeeding ==
    orch = "look_for_peers" =>
        /\ \A i \in Pieces : has_piece(BitfieldNew(piece_num), i) = "no"
        /\ task_queue = SeededQueue

\* C12 witness: the queue has been seeded and no worker is spawned yet.
TaskSeedingWitness ==
    /\ orch = "look_for_peers"
    /\ Len(task_queue) = piece_num
    /\ \A w \in Workers : peers[w].status = "unspawned"

\* C13 -- Push-back preserves FIFO: after seeding, every step that changes
\* the queue either removes its head (a pop) or appends the task a worker
\* held at its tail (a push-back), so a pushed-back task is popped only after
\* every task that was queued at the time of the push.
PushBackFifo ==
    [][orch # "assign" =>
          \/ task_queue' = task_queue
          \/ task_queue # <<>> /\ task_queue' = Tail(task_queue)
          \/ \E w \in Workers :
                /\ peers[w].current_task # None
                /\ peers'[w].current_task = None
                /\ task_queue' = Append(task_queue, Unwrap(peers[w].current_task))]_vars

\* C13 witness: from the queue [0, 1] task 0 was popped and pushed back: it
\* now stands behind task 1, which a worker is about to pop.
PushBackFifoWitness ==
    \E w \in Workers :
        /\ Running(w) /\ peers[w].pc = "bf_fetch"
        /\ task_queue = <<TaskOf(1), TaskOf(0)>>

\* C14 -- A piece's cache file is created only after SHA-1 verification of
\* that piece has succeeded: a cache file exists only for a verified index.
CacheFileOnlyAfterVerification ==
    \A i \in Pieces : cache[i] # None => i \in verified

\* C15 -- Every piece cache file that exists holds exactly piece_length
\* bytes, also after a failed attempt followed by a later attempt on the piece.
CacheFileHasPieceLength ==
    \A i \in Pieces :
        cache[i] # None =>
            /\ Len(Unwrap(cache[i])) * BLOCK_SIZE = piece_length
            /\ \A k \in 1 .. Len(Unwrap(cache[i])) : Unwrap(cache[i])[k] # PartialBlock

\* The cache files the workers wrote, concatenated in ascending index order.
RECURSIVE WrittenFrom(_)
WrittenFrom(index) ==
    IF index >= piece_num THEN <<>>
    ELSE (IF cache[index] = None THEN <<>> ELSE Unwrap(cache[index])) \o WrittenFrom(index + 1)

\* C16 -- Concatenation: when concat_cache has run, the output file holds the
\* bytes of every cache file a worker wrote, in ascending index order, and an
\* index is skipped only when no worker wrote a file for it.
ConcatAppendsWrittenFiles ==
    orch \in {"done", "concat_err"} => output = Some(WrittenFrom(0))

\* C17 -- The output is written only after every worker has ended: the step
\* that leaves wg.wait() is taken with every worker terminated and is no
\* worker's step, and once concatenation has started no worker takes a step
\* and no cache file changes.
ConcatAfterWorkers ==
    [][/\ (orch = "wait" /\ orch' # "wait")
            => (\A w \in Workers : Terminated(w)) /\ peers' = peers /\ cache' = cache
       /\ orch \in {"done", "concat_err"} => peers' = peers /\ cache' = cache]_vars

\* C17 witness: concat_cache has run after one worker exited on the drained
\* queue and another one crashed, with a cache file written.
ConcatAfterWorkersWitness ==
    /\ orch \in {"done", "concat_err"}
    /\ \E i \in Pieces : cache[i] # None
    /\ \E w1, w2 \in Workers : peers[w1].status = "exited" /\ peers[w2].status = "panicked"

\* C18 -- A peer in state Busy has received the remote handshake and has sent
\* Interested.
BusyAfterHandshakeAndInterested ==
    \A w \in Workers :
        peers[w].state = "Busy" => peers[w].id # None /\ peers[w].interested_sent

\* C19 -- While a worker holds a task, every block in its accumulator has the
\* task's piece index.
AccumulatorMatchesTask ==
    \A w \in Workers :
        peers[w].current_task # None =>
            \A k \in 1 .. Len(peers[w].received_pieces) :
                peers[w].received_pieces[k].index = Unwrap(peers[w].current_task).index

\* C20 -- KeepAlive round trip: the frame [0, 0, 0, 0] decodes to KeepAlive,
\* and serializing that KeepAlive yields the same four bytes [0, 0, 0, 0].
KeepAliveRoundTrip ==
    stream.bytes = <<0, 0, 0, 0>> =>
        /\ msg_read # None => msg_read = Some(Ok(KeepAlive))
        /\ wire_out # None => wire_out = Some(Ok(Message("bytes", 0, 0, 0, <<0, 0, 0, 0>>)))

\* The Requests for every block of task t, in ascending offset.
InitialBatch(t) ==
    [k \in 1 .. (t.piece_length \div BLOCK_SIZE) |->
        Msg("Request", t.index, (k - 1) * BLOCK_SIZE, BLOCK_SIZE)]

\* What the UnChoke handler may not touch when it ignores the frame.
PeerState(p) ==
    <<p.status, p.pc, p.state, p.id, p.bitfield, p.current_task, p.received_pieces,
      p.interested_sent>>

\* C21 -- Unchoke handling: an UnChoke read while Busy writes nothing and
\* changes no worker state or queue; an UnChoke read in Preparing writes the
\* Requests for every block of the current task and then sets Busy (or a
\* write fails and the state does not become Busy); and the state is Busy
\* after the step only if it was Busy before or the whole batch was written.
UnchokeHandling ==
    [][\A w \in Workers :
          recv_UnChoke(w) =>
              /\ peers[w].state = "Busy" =>
                    /\ peers'[w].out = <<>>
                    /\ PeerState(peers'[w]) = PeerState(peers[w])
                    /\ task_queue' = task_queue
              /\ peers[w].state = "Preparing" =>
                    /\ peers[w].current_task # None
                    /\ \/ /\ peers'[w].status = "running"
                          /\ peers'[w].state = "Busy"
                          /\ peers'[w].out = InitialBatch(Unwrap(peers[w].current_task))
                          /\ peers'[w].current_task = peers[w].current_task
                       \/ /\ peers'[w].status = "error"
                          /\ peers'[w].state # "Busy"
                          /\ Len(peers'[w].out) < piece_length \div BLOCK_SIZE
                          /\ peers'[w].out
                                 = SubSeq(InitialBatch(Unwrap(peers[w].current_task)), 1,
                                          Len(peers'[w].out))
              /\ peers'[w].state = "Busy" =>
                    \/ peers[w].state = "Busy"
                    \/ /\ peers[w].current_task # None
                       /\ peers'[w].out = InitialBatch(Unwrap(peers[w].current_task))]_vars

\* C22 -- A decode failure is a read error value, not a crash: whatever
\* frame the stream holds, Message::from_stream returns a Message or one of
\* Timeout, ReadError, HandShakeError, and never panics.
DecodeFailureIsError ==
    msg_read # None =>
        \/ Unwrap(msg_read).res = "Ok"
        \/ Unwrap(msg_read).res = "Err" /\ Unwrap(msg_read).val.type \in MessageError

\* C23 -- No worker step dereferences an absent current task: the bitfield
\* skip loop, the Requests of an UnChoke read in Preparing, and the Requests
\* that follow the pop after a saved piece all run with current_task Some.
NoAbsentTaskDereference ==
    [][\A w \in Workers :
          /\ BitfieldLoop(w) => peers[w].current_task # None
          /\ (recv_UnChoke(w) /\ peers[w].state # "Busy") => peers[w].current_task # None
          /\ FetchNext(w) => fetch_task(peers[w].current_task, task_queue).cur # None]_vars

\* A Request for piece i among the frames o.
RequestsPiece(o, i) == \E k \in 1 .. Len(o) : o[k].type = "Request" /\ o[k].index = i

\* C24 -- A verified piece is never touched again: once piece i has passed
\* the SHA-1 comparison no step changes its cache file, puts task i in the
\* queue, or writes a Request for index i.
VerifiedPieceUntouched ==
    [][\A i \in verified :
          /\ cache'[i] = cache[i]
          /\ \A k \in 1 .. Len(task_queue') : task_queue'[k].index # i
          /\ \A w \in Workers :
                peers'[w] # peers[w] => ~RequestsPiece(peers'[w].out, i)]_vars

\* C25 -- The requested blocks suffice to complete the piece: for a task of
\* any piece_length >= 1 the Requests of its batch are at least as many as
\* the blocks the completion test needs, so once the honest peer has answered
\* every Request the piece has been assembled and saved.
RequestedBlocksSuffice ==
    \A w \in Workers :
        (Running(w) /\ honest[w] /\ peers[w].state = "Busy" /\ peers[w].current_task # None) =>
            /\ Len(request_piece(peers[w].current_task)) * BLOCK_SIZE
                   >= Unwrap(peers[w].current_task).piece_length
            /\ owed[w] = <<>> => cache[Unwrap(peers[w].current_task).index] # None

====
